---- MODULE Spec2Model ----
(***************************************************************************)
(* A model of glyphtools' two numeric routines:                            *)
(*   determine_kern        (src/glyphtools/__init__.py, lines 225-288)      *)
(*   bin_glyphs_by_metric  (src/glyphtools/__init__.py, lines 183-222)      *)
(*                                                                         *)
(* Lengths (distances, kerns, target distances) are fixed-point numbers:   *)
(* the integer x stands for x / Scale font units.  Python's None is the    *)
(* empty sequence <<>> and a number v is the one-element sequence <<v>>,   *)
(* so that Python's truth test ("not x") can tell None, 0 and the rest     *)
(* apart.                                                                  *)
(***************************************************************************)
EXTENDS Integers, Sequences, FiniteSets, TLC

\* ------------------------------------------------------------------ bounds
\* Fixed-point resolution: sub-unit steps per font unit.
Scale == 10
\* Each glyph has 0..MaxPaths outlines.
MaxPaths == 2
\* A path distance is one of 0, 1/2, 1, ..., MaxD/2 font units.
MaxD == 4
\* bin_glyphs_by_metric is called with 1..MaxGlyphs glyphs,
MaxGlyphs == 3
\* metric values in -MaxNeg..MaxMetric,
MaxNeg == 1
MaxMetric == 2
\* and a requested bin count in 1..MaxBins.
MaxBins == 4

\* ------------------------------------------------------- program constants
\* "iterations > 10"
IterationCap == 10
\* "abs(minDistance - targetdistance) < 1", in font units
Tolerance == 1

VARIABLES
    pc,           \* position of the running call
    \* ---- determine_kern
    n1,           \* len(paths1)
    n2,           \* len(paths2)
    targetdistance,
    width,        \* metrics1["width"], whole font units
    maxtuck,      \* maxtuck, in 1/Scale (0 is falsy)
    kern,
    lastBest,
    iterations,
    minDistance,
    i,            \* index of p1 in "for p1 in paths1"
    j,            \* index of p2 in "for p2 in paths2"
    result,       \* the returned value, <<>> before the return
    raised,       \* the exception that ended the call, "" if none
    \* ---- history of determine_kern (read by the properties only)
    roundMin,     \* the least d[0] the current round has measured
    prevKern,     \* kern during the previous round
    rounds,       \* rounds of distance computation started
    stop,         \* which break left the while loop
    \* ---- bin_glyphs_by_metric
    metrics,      \* the list of (glyph, value) pairs
    bincount,
    requested,    \* history: bincount as passed by the caller
    clusters,     \* ckmeans' result
    c,            \* index of c in "for c in clusters"
    binned

kernVars == <<n1, n2, targetdistance, width, maxtuck, kern, lastBest,
              iterations, minDistance, i, j, result, raised,
              roundMin, prevKern, rounds, stop>>
binVars == <<metrics, bincount, requested, clusters, c, binned>>
vars == <<pc, kernVars, binVars>>

\* --------------------------------------------------------------- helpers
None == <<>>
Some(v) == <<v>>

\* Python's truth value of an optional number: None and 0 are falsy.
Truthy(x) == IF x = None THEN FALSE ELSE x[1] # 0

Abs(x) == IF x < 0 THEN 0 - x ELSE x

Max(a, b) == IF a >= b THEN a ELSE b

\* A variant of TruncDiv that rounds toward minus infinity.
TruncDivFloor(x, q) == x \div q
\* int(x / q) for q > 0: Python's int() truncates toward zero.
TruncDiv(x, q) == IF x >= 0 THEN x \div q ELSE 0 - ((0 - x) \div q)

\* ---------------------------------------------------------- determine_kern
Distances == { x * (Scale \div 2) : x \in 0..MaxD }
Targets == { 0 - Scale, 0, Scale + (Scale \div 2) }
Widths == { 3, 20 }
MaxTucks == { 0, 4 }

\* The test of a running minimum: the first value, or a smaller one.
TakesMinimum(md, d) == IF md = None THEN TRUE ELSE d < md[1]

\* "if not minDistance or d[0] < minDistance" (line 272)
TakesDistance(md, d) == IF ~Truthy(md) THEN TRUE ELSE d < md[1]

\* "if not lastBest or minDistance < lastBest" (line 275), minDistance a number
Improves(lb, md) == IF ~Truthy(lb) THEN TRUE ELSE md < lb[1]

\* A variant of WithinTolerance that accepts a distance of exactly 1 unit.
WithinToleranceLe(md, t) == Abs(md - t) <= Tolerance * Scale
\* "abs(minDistance - targetdistance) < 1" (line 279)
WithinTolerance(md, t) == Abs(md - t) < Tolerance * Scale

\* A variant of CapExceeded that allows one more iteration.
CapExceededLate(it) == it > IterationCap + 1
\* "iterations > 10" (line 279)
CapExceeded(it) == it > IterationCap

\* lines 284-287: the lower bound of the kern, in 1/Scale
TuckBound(w, mt) == IF mt # 0 THEN 0 - (w * mt) ELSE 0 - (w * Scale)

\* A variant of ClampedKern that rounds down instead of truncating.
ClampedKernFloor(k, w, mt) == TruncDivFloor(Max(k, TuckBound(w, mt)), Scale)
\* lines 284-288: max(kern, bound), then int()
ClampedKern(k, w, mt) == TruncDiv(Max(k, TuckBound(w, mt)), Scale)

BinIdle ==
    /\ metrics = <<>> /\ bincount = 0 /\ requested = 0
    /\ clusters = <<>> /\ c = 0
    /\ binned = <<>>

\* The call's arguments and the locals set by lines 256-262.
InitKern ==
    /\ pc = "round"
    /\ n1 \in 0..MaxPaths
    /\ n2 \in 0..MaxPaths
    /\ targetdistance \in Targets
    /\ width \in Widths
    /\ maxtuck \in MaxTucks
    /\ kern = 0
    /\ lastBest = None
    /\ iterations = 0
    /\ minDistance = None
    /\ i = 0 /\ j = 0
    /\ result = None
    /\ raised = ""
    /\ roundMin = None
    /\ prevKern = 0
    /\ rounds = 0
    /\ stop = ""
    /\ BinIdle

\* lines 263-267: a round of the while loop begins.
BeginRound ==
    /\ pc = "round"
    /\ minDistance' = None
    /\ roundMin' = None
    /\ i' = 1 /\ j' = 1
    /\ rounds' = rounds + 1
    /\ pc' = "pairs"
    /\ UNCHANGED <<n1, n2, targetdistance, width, maxtuck, kern, lastBest,
                   iterations, result, raised, prevKern, stop, binVars>>

\* lines 267-274: one pass of the inner loop body; d is what
\* p1.distanceToPath(p2, samples=3) returns for this pair at this kern.
MeasurePair ==
    /\ pc = "pairs"
    /\ i <= n1 /\ n2 >= 1
    /\ \E d \in Distances :
        /\ minDistance' = IF TakesDistance(minDistance, d)
                          THEN Some(d) ELSE minDistance
        /\ roundMin' = IF TakesMinimum(roundMin, d)
                       THEN Some(d) ELSE roundMin
    /\ IF j < n2 THEN i' = i /\ j' = j + 1
                 ELSE i' = i + 1 /\ j' = 1
    /\ UNCHANGED <<pc, n1, n2, targetdistance, width, maxtuck, kern, lastBest,
                   iterations, result, raised, prevKern, rounds, stop, binVars>>

\* Both for loops are exhausted (at once when a glyph has no outlines).
PairsDone ==
    /\ pc = "pairs"
    /\ (i > n1 \/ n2 = 0)
    /\ pc' = "test"
    /\ UNCHANGED <<kernVars, binVars>>

\* lines 275-279 with minDistance = None: "not lastBest" lets None through
\* to "abs(minDistance - targetdistance)", which raises TypeError; with a
\* truthy lastBest "minDistance < lastBest" raises it.
RaiseTypeError ==
    /\ pc = "test"
    /\ minDistance = None
    /\ raised' = "TypeError"
    /\ lastBest' = IF Truthy(lastBest) THEN lastBest ELSE minDistance
    /\ pc' = "error"
    /\ UNCHANGED <<n1, n2, targetdistance, width, maxtuck, kern, iterations,
                   minDistance, i, j, result, roundMin, prevKern, rounds,
                   stop, binVars>>

\* lines 277-278: "break  # Nothing helped"
NothingHelped ==
    /\ pc = "test"
    /\ minDistance # None
    /\ ~Improves(lastBest, minDistance[1])
    /\ stop' = "nothelped"
    /\ pc' = "clamp"
    /\ UNCHANGED <<n1, n2, targetdistance, width, maxtuck, kern, lastBest,
                   iterations, minDistance, i, j, result, raised, roundMin,
                   prevKern, rounds, binVars>>

\* lines 275-276, 279-280: the round improved and the loop breaks, on the
\* tolerance test or, when that fails, on the iteration cap.
AcceptKern ==
    /\ pc = "test"
    /\ minDistance # None
    /\ Improves(lastBest, minDistance[1])
    /\ lastBest' = minDistance
    /\ \/ /\ WithinTolerance(minDistance[1], targetdistance)
          /\ stop' = "within"
       \/ /\ ~WithinTolerance(minDistance[1], targetdistance)
          /\ CapExceeded(iterations)
          /\ stop' = "cap"
    /\ pc' = "clamp"
    /\ UNCHANGED <<n1, n2, targetdistance, width, maxtuck, kern, iterations,
                   minDistance, i, j, result, raised, roundMin, prevKern,
                   rounds, binVars>>

\* lines 275-276, 279, 281-282: the round improved and the loop goes on.
AdjustKern ==
    /\ pc = "test"
    /\ minDistance # None
    /\ Improves(lastBest, minDistance[1])
    /\ ~WithinTolerance(minDistance[1], targetdistance)
    /\ ~CapExceeded(iterations)
    /\ lastBest' = minDistance
    /\ iterations' = iterations + 1
    /\ kern' = kern + (targetdistance - minDistance[1])
    /\ prevKern' = kern
    /\ pc' = "round"
    /\ UNCHANGED <<n1, n2, targetdistance, width, maxtuck, minDistance, i, j,
                   result, raised, roundMin, rounds, stop, binVars>>

\* lines 284-288
ClampAndReturn ==
    /\ pc = "clamp"
    /\ result' = Some(ClampedKern(kern, width, maxtuck))
    /\ pc' = "done"
    /\ UNCHANGED <<n1, n2, targetdistance, width, maxtuck, kern, lastBest,
                   iterations, minDistance, i, j, raised, roundMin, prevKern,
                   rounds, stop, binVars>>

NextKern ==
    \/ BeginRound
    \/ MeasurePair
    \/ PairsDone
    \/ RaiseTypeError
    \/ NothingHelped
    \/ AcceptKern
    \/ AdjustKern
    \/ ClampAndReturn

SpecKern == InitKern /\ [][NextKern]_vars

\* ---------------------------------------------------- bin_glyphs_by_metric
Values == (0 - MaxNeg)..MaxMetric

Range(s) == { s[x] : x \in DOMAIN s }

RECURSIVE SumSeq(_)
SumSeq(s) == IF s = <<>> THEN 0 ELSE s[1] + SumSeq(Tail(s))

RECURSIVE SumSquares(_)
SumSquares(s) == IF s = <<>> THEN 0 ELSE s[1] * s[1] + SumSquares(Tail(s))

RECURSIVE Factorial(_)
Factorial(n) == IF n <= 1 THEN 1 ELSE n * Factorial(n - 1)

\* The within-group sum of squared deviations of the numbers of s, times f
\* (f a multiple of Len(s), so that the quotient is exact).
ScaledVariance(s, f) ==
    (f \div Len(s)) * (Len(s) * SumSquares(s) - SumSeq(s) * SumSeq(s))

\* The groups a set of cut positions makes of the sequence s: a cut at
\* position x separates s[x] from s[x+1].
GroupsOf(s, cuts) ==
    LET ends == cuts \cup {Len(s)}
        start(e) == IF \E x \in cuts : x < e
                    THEN 1 + CHOOSE x \in cuts :
                             x < e /\ \A y \in cuts : y < e => y <= x
                    ELSE 1
        sorted == SortSeq([x \in 1..Cardinality(ends) |->
                              CHOOSE e \in ends :
                                  Cardinality({y \in ends : y < e}) = x - 1],
                          <)
    IN [x \in 1..Len(sorted) |-> SubSeq(s, start(sorted[x]), sorted[x])]

CutSets(n, k) == { cs \in SUBSET (1..(n - 1)) : Cardinality(cs) = k - 1 }

GroupingCost(s, cuts) ==
    LET gs == GroupsOf(s, cuts)
        f == Factorial(Len(s))
        RECURSIVE total(_)
        total(x) == IF x = 0 THEN 0
                    ELSE ScaledVariance(gs[x], f) + total(x - 1)
    IN total(Len(gs))

\* ckmeans(data, k): the data sorted and cut into k non-empty contiguous
\* groups of least summed within-group variance.
Ckmeans(data, k) ==
    LET s == SortSeq(data, <)
        best == CHOOSE cs \in CutSets(Len(s), k) :
                    \A other \in CutSets(Len(s), k) :
                        GroupingCost(s, cs) <= GroupingCost(s, other)
    IN GroupsOf(s, best)

\* line 207
JustMetrics(ms) == [x \in 1..Len(ms) |-> ms[x][2]]

\* lines 208-209
CappedBincount(k, n) == IF k > n THEN n ELSE k

\* A variant of BinMean that reports the first member's value.
BinMeanFirst(vals) == vals[1]
\* line 219: int(statistics.mean(...)) of a non-empty list of integers
BinMean(vals) == TruncDiv(SumSeq(vals), Len(vals))

\* lines 213-220: the bin made for the cluster cl
ThisCluster(cl, ms) ==
    LET members == SelectSeq(ms, LAMBDA m : m[2] \in Range(cl))
    IN << [x \in 1..Len(members) |-> members[x][1]],
          BinMean([x \in 1..Len(members) |-> members[x][2]]) >>

\* lines 206-222 as a function of the arguments
BinGlyphsByMetric(ms, k) ==
    LET cls == Ckmeans(JustMetrics(ms), CappedBincount(k, Len(ms)))
    IN [x \in 1..Len(cls) |-> ThisCluster(cls[x], ms)]

\* The docstring's example: widths 100, 102, 105, 210, 220.
ExampleMetrics == << <<1, 100>>, <<2, 102>>, <<3, 105>>, <<4, 210>>, <<5, 220>> >>

KernIdle ==
    /\ n1 = 0 /\ n2 = 0 /\ targetdistance = 0 /\ width = 0 /\ maxtuck = 0
    /\ kern = 0 /\ lastBest = None /\ iterations = 0 /\ minDistance = None
    /\ i = 0 /\ j = 0 /\ result = None /\ raised = "" /\ roundMin = None
    /\ prevKern = 0 /\ rounds = 0 /\ stop = ""

\* The call's arguments: glyph x of the list has the metric value vals[x].
InitBin ==
    /\ pc = "bin"
    /\ \/ \E n \in 1..MaxGlyphs : \E vals \in [1..n -> Values] :
              metrics = [x \in 1..n |-> <<x, vals[x]>>]
       \/ metrics = ExampleMetrics
    /\ requested \in 1..MaxBins
    /\ bincount = requested
    /\ clusters = <<>>
    /\ c = 0
    /\ binned = <<>>
    /\ KernIdle

\* lines 206-211
ClusterMetrics ==
    /\ pc = "bin"
    /\ bincount' = CappedBincount(bincount, Len(metrics))
    /\ clusters' = Ckmeans(JustMetrics(metrics), bincount')
    /\ c' = 1
    /\ binned' = <<>>
    /\ pc' = "bins"
    /\ UNCHANGED <<metrics, requested, kernVars>>

\* lines 212-221: one pass of "for c in clusters"
AppendBin ==
    /\ pc = "bins"
    /\ c <= Len(clusters)
    /\ binned' = Append(binned, ThisCluster(clusters[c], metrics))
    /\ c' = c + 1
    /\ UNCHANGED <<pc, metrics, bincount, requested, clusters, kernVars>>

\* line 222
ReturnBinned ==
    /\ pc = "bins"
    /\ c > Len(clusters)
    /\ pc' = "binned"
    /\ UNCHANGED <<binVars, kernVars>>

NextBin ==
    \/ ClusterMetrics
    \/ AppendBin
    \/ ReturnBinned

SpecBin == InitBin /\ [][NextBin]_vars

\* ------------------------------------------------------------ both calls
Init == InitKern \/ InitBin

Next == NextKern \/ NextBin

Spec == Init /\ [][Next]_vars

\* The loop of determine_kern alone: width and maxtuck are read only after
\* it (lines 284-287), so one value of each is enough.
InitKernLoop == InitKern /\ width = 3 /\ maxtuck = 4

\* The interpreter runs a started call to its end.
SpecKernFair == InitKernLoop /\ [][NextKern]_vars /\ WF_vars(NextKern)

\* ------------------------------------------------------------ properties
Returned == pc = "done"
Ended == pc \in {"done", "error"}

\* C1: determine_kern never returns less than -(width * maxtuck) when
\* maxtuck is set, and never less than -width when maxtuck is 0, whatever
\* the target distance and the distances measured.
C1_KernNotBelowTuck ==
    Returned =>
        IF maxtuck # 0
        THEN result[1] * Scale >= 0 - (width * maxtuck)
        ELSE result[1] >= 0 - width

\* C1 witness: a call with a fractional bound (-(3 * 0.4) = -1.2) has
\* returned after the search went below the bound.
C1_Witness ==
    /\ Returned
    /\ maxtuck # 0
    /\ (width * maxtuck) % Scale # 0
    /\ kern < 0 - (width * maxtuck)
    /\ targetdistance < 0

\* C6: when either glyph has no outlines the call ends in the dedicated
\* missing-geometry error and never returns a kern.
C6_MissingGeometryError ==
    (Ended /\ (n1 = 0 \/ n2 = 0)) =>
        (result = None /\ raised = "MissingGeometry")

C9_KeepsPreviousKern ==
    (pc = "clamp" /\ stop = "nothelped") => kern = prevKern

\* C10: the distance the convergence tests use is the global minimum of the
\* pairwise distances of the round, also when a pair's distance is 0.
C10_GlobalMinimum ==
    (pc = "test" /\ n1 > 0 /\ n2 > 0) => minDistance = roundMin

\* ---- bin_glyphs_by_metric
Binned == pc = "binned"
Glyphs == { metrics[x][1] : x \in DOMAIN metrics }
DistinctValues == { metrics[x][2] : x \in DOMAIN metrics }
GlyphsWithValue(v) == { metrics[x][1] : x \in { y \in DOMAIN metrics : metrics[y][2] = v } }
ValuesOfBin(b) ==
    { metrics[x][2] : x \in { y \in DOMAIN metrics : metrics[y][1] \in Range(binned[b][1]) } }

\* C2: every input glyph appears in exactly one bin of the result.
C2_EveryGlyphInExactlyOneBin ==
    Binned =>
        \A g \in Glyphs :
            Cardinality({ b \in DOMAIN binned : g \in Range(binned[b][1]) }) = 1

\* C3: with a bin count greater than the number of samples, the result has
\* exactly one bin per distinct value, none empty, each holding exactly the
\* glyphs that share the value.
C3_OneBinPerDistinctValue ==
    (Binned /\ requested > Len(metrics)) =>
        /\ Len(binned) = Cardinality(DistinctValues)
        /\ \A b \in DOMAIN binned :
               /\ binned[b][1] # <<>>
               /\ \E v \in DistinctValues :
                      Range(binned[b][1]) = GlyphsWithValue(v)

\* The result with each bin's glyph list read as a set.
Membership(bs) == [b \in DOMAIN bs |-> << Range(bs[b][1]), bs[b][2] >>]

\* C4: for every reordering of the same samples and the same bin count, the
\* bins have the same membership sets and the same mean values.
C4_OrderIndependent ==
    Binned =>
        \A p \in Permutations(DOMAIN metrics) :
            Membership(BinGlyphsByMetric([x \in DOMAIN metrics |-> metrics[p[x]]],
                                         requested))
                = Membership(binned)

\* C4 witness: a call has returned for samples that were not given in
\* ascending order of value, with a bin of two glyphs of different values.
C4_Witness ==
    /\ Binned
    /\ \E x \in DOMAIN metrics : x > 1 /\ metrics[x][2] < metrics[x - 1][2]
    /\ \E b \in DOMAIN binned : Cardinality(ValuesOfBin(b)) >= 2

\* The values of the sorted sample list s that bin b of the result holds.
BinValues(b) ==
    LET members == SelectSeq(metrics, LAMBDA m : m[1] \in Range(binned[b][1]))
    IN [x \in 1..Len(members) |-> members[x][2]]

RECURSIVE BinnedCost(_)
BinnedCost(b) ==
    IF b = 0 THEN 0
    ELSE ScaledVariance(BinValues(b), Factorial(Len(metrics))) + BinnedCost(b - 1)

\* C5: the result is the reference result: the values are partitioned into
\* k contiguous value ranges (k reduced to the number of distinct values) of
\* least summed within-range variance, in ascending order, each bin with
\* its member glyphs and the truncated mean of their values.
C5_ReferenceResult ==
    Binned =>
        LET k == IF requested > Cardinality(DistinctValues)
                 THEN Cardinality(DistinctValues) ELSE requested
            s == SortSeq(JustMetrics(metrics), <)
        IN /\ Len(binned) = k
           /\ \A g \in Glyphs :
                  Cardinality({ b \in DOMAIN binned : g \in Range(binned[b][1]) }) = 1
           /\ \A b \in DOMAIN binned :
                  /\ binned[b][1] # <<>>
                  /\ \A v \in ValuesOfBin(b) : GlyphsWithValue(v) \subseteq Range(binned[b][1])
                  /\ binned[b][2] = TruncDiv(SumSeq(BinValues(b)), Len(BinValues(b)))
           /\ \A b1, b2 \in DOMAIN binned :
                  b1 < b2 => \A v1 \in ValuesOfBin(b1), v2 \in ValuesOfBin(b2) : v1 < v2
           /\ \A cs \in CutSets(Len(s), k) :
                  BinnedCost(Len(binned)) <= GroupingCost(s, cs)

====
